---- MODULE Spec2Model ----
(***************************************************************************)
(* A model of the skipidy skiplist: the SET facade SkipList over the       *)
(* pointer structure NonEmptySkipList (src/src/lib.rs), and the MAP facade *)
(* SkipMap (src/src/skipmap.rs) over the same storage engine.              *)
(*                                                                         *)
(* The heap is a finite pool of node slots 1..MaxNodes; 0 is the null      *)
(* pointer (Option::None).  Every operation is one atomic action, the      *)
(* loops of the code being recursive operators.                            *)
(***************************************************************************)
EXTENDS Integers, FiniteSets, Sequences, TLC

\* ---------------------------------------------------------------- bounds
\* The const generic N of SkipList<T, R, N>: the width of every nexts array.
N == 3
\* Number of node slots of the modelled heap.
MaxNodes == 4
\* Stored values (SET) and keys (MAP) are 1..MaxVal.
MaxVal == 3
\* MAP payloads are 1..MaxPay.
MaxPay == 2

Nil == 0
Nodes == 1..MaxNodes
Values == 1..MaxVal
Payloads == 1..MaxPay
LevelIdx == 0..(N - 1)
\* The level loop of insert looks at the bits 1..N-1 of the random word, in
\* ascending order, and stops at the first zero bit.  The words drawn are
\* words of N+1 bits: the all-ones word, the all-ones word with one of the
\* bits 1..N-1 cleared (one word for every level the loop can stop at, the
\* bits above the stop set), and the word 1 (no bit the loop reads set).
AllOnes == (2 ^ (N + 1)) - 1
RandomWords == {AllOnes, 1} \cup {AllOnes - (2 ^ j) : j \in 1..(N - 1)}

VARIABLES
    some,     \* the facade's Option: TRUE iff self.0 is Some(storage)
    head,     \* NonEmptySkipList.head (Nil when the facade is None)
    levels,   \* NonEmptySkipList.levels (0 when the facade is None)
    val,      \* val[n]: SkipNode.val of node n (the key of the Entry for MAP)
    ent,      \* ent[n]: Entry.value of node n (MAP only; 0 for SET)
    nexts,    \* nexts[n][i]: SkipNode.nexts[i] of node n
    live,     \* the set of allocated, not yet deallocated nodes
    count,    \* history: count[v] = inserts of v minus successful removes of v
    shadow,   \* history (MAP): shadow[k] = payload last inserted under k, 0 if none
    last,     \* history: the last operation: its argument, its result, the path
              \* it took, what the history held for the argument before it,
              \* the levels before it, the words it drew from the rng, for an
              \* insert the new node (named as after the call) and the highest
              \* level it was linked at, for a successful remove the victim
              \* (named as before the call) and the highest level it was on
    prev,     \* history: the lookup answers before the last operation: the set of
              \* probes contains accepted (SET), get's answer for every key (MAP)
    pair,     \* history (SET): when the operation before the last one was an
              \* insert or remove of the same argument: its kind, its result
              \* and the probes contains accepted before it
    events,   \* history: the memory events of the last call in program order,
              \* kept by the statement-wise actions only
    facade    \* which container the behaviour is about: "SkipList" (SET) or
              \* "SkipMap" (MAP); fixed at construction

vars == <<some, head, levels, val, ent, nexts, live, count, shadow, last, prev,
          pair, events, facade>>
heapvars == <<some, head, levels, val, ent, nexts, live>>

\* ------------------------------------------------------------ SkipNode
NoLinks == [i \in LevelIdx |-> Nil]

\* SkipNode::alloc: Box::new returns some unused address; the model takes the
\* lowest free slot.
alloc(lv) == CHOOSE n \in Nodes \ lv : \A m \in Nodes \ lv : n <= m

\* The heap as one record, the argument of the storage operators.
Heap == [head |-> head, levels |-> levels, val |-> val, ent |-> ent,
         nexts |-> nexts, live |-> live]

\* SkipNode::dealloc: the slot is returned to the allocator; its content is
\* no longer part of the program state.
dealloc(h, ptr) ==
    [h EXCEPT !.val[ptr] = 0, !.ent[ptr] = 0, !.nexts[ptr] = NoLinks,
              !.live = h.live \ {ptr}]

\* ------------------------------------------------------- NonEmptySkipList
\* Mutant of head_cmp: Equal is reported as Less.
head_cmp_noeq(h, x) == IF h.val[h.head] > x THEN 1 ELSE -1

\* head_cmp: the ordering of head.val against the probe: 1 Greater, 0 Equal,
\* -1 Less.
head_cmp(h, x) ==
    IF h.val[h.head] > x THEN 1 ELSE IF h.val[h.head] = x THEN 0 ELSE -1

\* Mutant of advance: advances while the next value is <= the probe.
RECURSIVE advance_le(_, _, _, _)
advance_le(h, x, level, p) ==
    LET c == h.nexts[p][level]
    IN  IF c # Nil /\ h.val[c] <= x THEN advance_le(h, x, level, c) ELSE p

\* The while-let of descend at one level: advance while the next node's value
\* is strictly less than the probe.
RECURSIVE advance(_, _, _, _)
advance(h, x, level, p) ==
    LET c == h.nexts[p][level]
    IN  IF c # Nil /\ h.val[c] < x THEN advance(h, x, level, c) ELSE p

\* The for loop of descend from `level` down to 0; trace[level] is what
\* visit(level, ptr) records.
RECURSIVE descendFrom(_, _, _, _, _)
descendFrom(h, x, level, p, trace) ==
    LET q == advance(h, x, level, p)
        t == [trace EXCEPT ![level] = q]
    IN  IF level = 0 THEN t ELSE descendFrom(h, x, level - 1, q, t)

\* descend with the trace-writing visitor: slots levels..N-1 stay
\* uninitialised (Nil here; the code never assumes them initialised).
descend(h, x) == descendFrom(h, x, h.levels - 1, h.head, NoLinks)

\* Mutant of contains: the Less arm accepts any successor, without comparing
\* its value with the probe.
contains_noeq(h, x) ==
    LET c == head_cmp(h, x)
    IN  IF c = 1 THEN FALSE
        ELSE IF c = 0 THEN TRUE
        ELSE h.nexts[descend(h, x)[0]][0] # Nil

\* NonEmptySkipList::contains.
contains(h, x) ==
    LET c == head_cmp(h, x)
    IN  IF c = 1 THEN FALSE
        ELSE IF c = 0 THEN TRUE
        ELSE LET p == descend(h, x)[0]
                 n == h.nexts[p][0]
             IN  n # Nil /\ h.val[n] = x

\* NonEmptySkipList::new: one node without links, levels = NonZeroUsize::MIN.
new(h, x, e) ==
    LET n == alloc(h.live)
    IN  [h EXCEPT !.head = n, !.levels = 1, !.val[n] = x, !.ent[n] = e,
                  !.nexts[n] = NoLinks, !.live = h.live \cup {n}]

\* Bit `level` of the random word: random & (1 << level) != 0.
Bit(random, level) == (random \div (2 ^ level)) % 2

\* Mutant of insertHead: the new head is not linked to the old head at level 0.
insertHead_nolink(h, x, e) ==
    LET n == alloc(h.live)
        old == h.head
        moved == [i \in LevelIdx |->
                    IF i >= 1 /\ i < h.levels THEN h.nexts[old][i] ELSE Nil]
        stripped == [i \in LevelIdx |->
                    IF i >= 1 /\ i < h.levels THEN Nil ELSE h.nexts[old][i]]
    IN  [h EXCEPT !.head = n, !.val[n] = x, !.ent[n] = e,
                  !.nexts = [h.nexts EXCEPT ![old] = stripped, ![n] = moved],
                  !.live = h.live \cup {n}]

\* Mutant of insertHead: the old head's links are copied, not taken: the old
\* head keeps them.
insertHead_keep(h, x, e) ==
    LET n == alloc(h.live)
        old == h.head
        moved == [i \in LevelIdx |->
                    IF i = 0 THEN old
                    ELSE IF i < h.levels THEN h.nexts[old][i] ELSE Nil]
    IN  [h EXCEPT !.head = n, !.val[n] = x, !.ent[n] = e,
                  !.nexts = [h.nexts EXCEPT ![n] = moved],
                  !.live = h.live \cup {n}]

\* The head path of insert (head.val >= val): the new node takes the old head
\* as its level-0 successor and takes over (take()) the old head's links at
\* the levels 1..levels-1, then becomes the head.
insertHead(h, x, e) ==
    LET n == alloc(h.live)
        old == h.head
        moved == [i \in LevelIdx |->
                    IF i = 0 THEN old
                    ELSE IF i < h.levels THEN h.nexts[old][i] ELSE Nil]
        stripped == [i \in LevelIdx |->
                    IF i >= 1 /\ i < h.levels THEN Nil ELSE h.nexts[old][i]]
    IN  [h EXCEPT !.head = n, !.val[n] = x, !.ent[n] = e,
                  !.nexts = [h.nexts EXCEPT ![old] = stripped, ![n] = moved],
                  !.live = h.live \cup {n}]

\* Mutant of insertLevels: growing adds two levels instead of one.
RECURSIVE insertLevels_grow2(_, _, _, _, _, _)
insertLevels_grow2(h, trace, curr, random, level, limit) ==
    IF level >= limit \/ Bit(random, level) = 0 THEN h
    ELSE LET grow == level >= h.levels
             lv == IF grow THEN h.levels + 2 ELSE h.levels
             p == IF grow THEN h.head ELSE trace[level]
             nx1 == [h.nexts EXCEPT ![curr][level] = h.nexts[p][level]]
             nx2 == [nx1 EXCEPT ![p][level] = curr]
         IN  insertLevels_grow2([h EXCEPT !.levels = lv, !.nexts = nx2],
                                trace, curr, random, level + 1, limit)

\* Mutant of insertLevels: the loop runs over all N trace slots instead of
\* the first min(levels + 1, N).
RECURSIVE insertLevels_nocap(_, _, _, _, _, _)
insertLevels_nocap(h, trace, curr, random, level, limit) ==
    IF level >= N \/ Bit(random, level) = 0 THEN h
    ELSE LET grow == level >= h.levels
             lv == IF grow THEN h.levels + 1 ELSE h.levels
             p == IF grow THEN h.head ELSE trace[level]
             nx1 == [h.nexts EXCEPT ![curr][level] = h.nexts[p][level]]
             nx2 == [nx1 EXCEPT ![p][level] = curr]
         IN  insertLevels_nocap([h EXCEPT !.levels = lv, !.nexts = nx2],
                                trace, curr, random, level + 1, limit)

\* The level loop of insert, for level, level+1, .. limit-1: stop at the first
\* zero bit; at a level >= levels grow levels by one and splice after the
\* head, otherwise splice after trace[level].
RECURSIVE insertLevels(_, _, _, _, _, _)
insertLevels(h, trace, curr, random, level, limit) ==
    IF level >= limit \/ Bit(random, level) = 0 THEN h
    ELSE LET grow == level >= h.levels
             lv == IF grow THEN h.levels + 1 ELSE h.levels
             p == IF grow THEN h.head ELSE trace[level]
             nx1 == [h.nexts EXCEPT ![curr][level] = h.nexts[p][level]]
             nx2 == [nx1 EXCEPT ![p][level] = curr]
         IN  insertLevels([h EXCEPT !.levels = lv, !.nexts = nx2],
                          trace, curr, random, level + 1, limit)

\* min(levels + 1, N): the number of trace slots the level loop may visit.
Min(a, b) == IF a < b THEN a ELSE b

\* The highest level the level loop links the new node at when it runs over
\* level, level+1, .. limit-1 (level - 1 when it links nothing).
RECURSIVE topLinked(_, _, _)
topLinked(random, level, limit) ==
    IF level >= limit \/ Bit(random, level) = 0 THEN level - 1
    ELSE topLinked(random, level + 1, limit)

\* Mutant of insertSplice: the new node does not take over its predecessor's
\* level-0 link.
insertSplice_droptail(h, x, e, random) ==
    LET trace == descend(h, x)
        curr == alloc(h.live)
        p == trace[0]
        nx == [h.nexts EXCEPT ![curr] = NoLinks, ![p][0] = curr]
        h1 == [h EXCEPT !.val[curr] = x, !.ent[curr] = e, !.nexts = nx,
                        !.live = h.live \cup {curr}]
    IN  insertLevels(h1, trace, curr, random, 1, Min(h.levels + 1, N))

\* Mutant of insertSplice: the new node is linked at level 0 right behind the
\* head instead of behind trace[0].
insertSplice_athead(h, x, e, random) ==
    LET trace == descend(h, x)
        curr == alloc(h.live)
        p == h.head
        nn == [NoLinks EXCEPT ![0] = h.nexts[p][0]]
        nx == [h.nexts EXCEPT ![curr] = nn, ![p][0] = curr]
        h1 == [h EXCEPT !.val[curr] = x, !.ent[curr] = e, !.nexts = nx,
                        !.live = h.live \cup {curr}]
    IN  insertLevels(h1, trace, curr, random, 1, Min(h.levels + 1, N))

\* The splice path of insert (head.val < val): descend, link the new node at
\* level 0 after trace[0], then run the level loop with one random word.
insertSplice(h, x, e, random) ==
    LET trace == descend(h, x)
        curr == alloc(h.live)
        p == trace[0]
        nn == [NoLinks EXCEPT ![0] = h.nexts[p][0]]
        nx == [h.nexts EXCEPT ![curr] = nn, ![p][0] = curr]
        h1 == [h EXCEPT !.val[curr] = x, !.ent[curr] = e, !.nexts = nx,
                        !.live = h.live \cup {curr}]
    IN  insertLevels(h1, trace, curr, random, 1, Min(h.levels + 1, N))

\* Mutant of insert: the head path is never taken, every value is spliced in
\* behind the head.
insert_nohead(h, x, e, random) == insertSplice(h, x, e, random)

\* NonEmptySkipList::insert.
insert(h, x, e, random) ==
    IF head_cmp(h, x) >= 0 THEN insertHead(h, x, e)
    ELSE insertSplice(h, x, e, random)

\* Mutant of inherit: only the topmost level is inherited.
inherit_top(nx, old, nh, level) ==
    IF level < 1 THEN nx
    ELSE IF nx[old][level] = nx[old][0] \/ nx[nh][level] # Nil THEN nx
    ELSE [nx EXCEPT ![nh][level] = nx[old][level]]

\* Mutant of inherit: the new head inherits nothing.
inherit_none(nx, old, nh, level) == nx

\* The head inheritance loop of remove, for level, level-1, .. 1: stop at the
\* first level where the old head's link is the new head or the new head
\* already has a link; otherwise copy the old head's link.
RECURSIVE inherit(_, _, _, _)
inherit(nx, old, nh, level) ==
    IF level < 1 THEN nx
    ELSE IF nx[old][level] = nx[old][0] \/ nx[nh][level] # Nil THEN nx
    ELSE inherit([nx EXCEPT ![nh][level] = nx[old][level]], old, nh, level - 1)

\* Mutant of unlink: the victim is unlinked at level 0 only.
unlink_level0(nx, trace, curr, level, lv) ==
    IF nx[trace[0]][0] # curr THEN nx
    ELSE [nx EXCEPT ![trace[0]][0] = nx[curr][0]]

\* The unlink loop of remove, for level, level+1, .. levels-1: stop at the
\* first level whose predecessor does not point to the victim.
RECURSIVE unlink(_, _, _, _, _)
unlink(nx, trace, curr, level, lv) ==
    IF level >= lv THEN nx
    ELSE LET p == trace[level]
         IN  IF nx[p][level] # curr THEN nx
             ELSE unlink([nx EXCEPT ![p][level] = nx[curr][level]],
                         trace, curr, level + 1, lv)

\* Mutant of shrink: at most one level is dropped.
shrink_once(h) ==
    IF h.levels > 1 /\ h.nexts[h.head][h.levels - 1] = Nil
    THEN [h EXCEPT !.levels = h.levels - 1]
    ELSE h

\* The trailing while of remove: drop the top levels the head has no link at.
RECURSIVE shrink(_)
shrink(h) ==
    IF h.levels > 1 /\ h.nexts[h.head][h.levels - 1] = Nil
    THEN shrink([h EXCEPT !.levels = h.levels - 1])
    ELSE h

\* The three outcomes of enum Removal.
RemovalNone(h) == [kind |-> "None", val |-> 0, ent |-> 0, heap |-> h]
RemovalSome(h, v, e) == [kind |-> "Some", val |-> v, ent |-> e, heap |-> h]
RemovalLast(h, v, e) == [kind |-> "Last", val |-> v, ent |-> e, heap |-> h]

\* Mutant of removeHead: the successor inherits the links but self.head keeps
\* pointing to the node that is deallocated.
removeHead_stale(h) ==
    LET old == h.head
        nh == h.nexts[old][0]
    IN  IF nh = Nil
        THEN RemovalLast(dealloc(h, old), h.val[old], h.ent[old])
        ELSE LET nx == inherit(h.nexts, old, nh, h.levels - 1)
                 h1 == [h EXCEPT !.nexts = nx]
             IN  RemovalSome(dealloc(h1, old), h.val[old], h.ent[old])

\* Mutant of removeHead: removing a head without successor reports
\* Removal::Some instead of Removal::Last.
removeHead_nolast(h) ==
    LET old == h.head
        nh == h.nexts[old][0]
    IN  IF nh = Nil
        THEN RemovalSome(dealloc(h, old), h.val[old], h.ent[old])
        ELSE LET nx == inherit(h.nexts, old, nh, h.levels - 1)
                 h1 == [h EXCEPT !.head = nh, !.nexts = nx]
             IN  RemovalSome(shrink(dealloc(h1, old)), h.val[old], h.ent[old])

\* NonEmptySkipList::remove, the Equal arm: the head is the victim.
removeHead(h) ==
    LET old == h.head
        nh == h.nexts[old][0]
    IN  IF nh = Nil
        THEN RemovalLast(dealloc(h, old), h.val[old], h.ent[old])
        ELSE LET nx == inherit(h.nexts, old, nh, h.levels - 1)
                 h1 == [h EXCEPT !.head = nh, !.nexts = nx]
             IN  RemovalSome(shrink(dealloc(h1, old)), h.val[old], h.ent[old])

\* Mutant of removeInner: the victim's value is returned but the node is
\* neither unlinked nor deallocated.
removeInner_nounlink(h, x) ==
    LET trace == descend(h, x)
        curr == h.nexts[trace[0]][0]
    IN  IF curr = Nil THEN RemovalNone(h)
        ELSE IF h.val[curr] # x THEN RemovalNone(h)
        ELSE RemovalSome(h, h.val[curr], h.ent[curr])

\* Mutant of removeInner: the unlink loop runs before the value of the
\* successor is compared with the probe.
removeInner_early(h, x) ==
    LET trace == descend(h, x)
        curr == h.nexts[trace[0]][0]
    IN  IF curr = Nil THEN RemovalNone(h)
        ELSE LET nx == unlink(h.nexts, trace, curr, 0, h.levels)
                 h1 == [h EXCEPT !.nexts = nx]
             IN  IF h.val[curr] # x THEN RemovalNone(h1)
                 ELSE RemovalSome(shrink(dealloc(h1, curr)),
                                  h.val[curr], h.ent[curr])

\* Mutant of removeInner: levels is left as it is after the unlinking.
removeInner_noshrink(h, x) ==
    LET trace == descend(h, x)
        curr == h.nexts[trace[0]][0]
    IN  IF curr = Nil THEN RemovalNone(h)
        ELSE IF h.val[curr] # x THEN RemovalNone(h)
        ELSE LET nx == unlink(h.nexts, trace, curr, 0, h.levels)
                 h1 == [h EXCEPT !.nexts = nx]
             IN  RemovalSome(dealloc(h1, curr), h.val[curr], h.ent[curr])

\* Mutant of removeInner: the victim is unlinked but not deallocated.
removeInner_nodealloc(h, x) ==
    LET trace == descend(h, x)
        curr == h.nexts[trace[0]][0]
    IN  IF curr = Nil THEN RemovalNone(h)
        ELSE IF h.val[curr] # x THEN RemovalNone(h)
        ELSE LET nx == unlink(h.nexts, trace, curr, 0, h.levels)
                 h1 == [h EXCEPT !.nexts = nx]
             IN  RemovalSome(shrink(h1), h.val[curr], h.ent[curr])

\* NonEmptySkipList::remove, the Less arm: descend and unlink the level-0
\* successor of trace[0] when its value equals the probe.
removeInner(h, x) ==
    LET trace == descend(h, x)
        curr == h.nexts[trace[0]][0]
    IN  IF curr = Nil THEN RemovalNone(h)
        ELSE IF h.val[curr] # x THEN RemovalNone(h)
        ELSE LET nx == unlink(h.nexts, trace, curr, 0, h.levels)
                 h1 == [h EXCEPT !.nexts = nx]
             IN  RemovalSome(shrink(dealloc(h1, curr)), h.val[curr], h.ent[curr])

\* Mutant of insertDraws: a word is drawn on the head path too.
insertDraws_always(h, x) == 1

\* The number of words insert draws from self.rng: one on the splice path
\* (lib.rs:202), none on the head path.
insertDraws(h, x) == IF head_cmp(h, x) >= 0 THEN 0 ELSE 1

\* The node a successful remove targets: the head in the Equal arm, the
\* level-0 successor of trace[0] in the Less arm.
victim(h, x) ==
    IF head_cmp(h, x) = 0 THEN h.head ELSE h.nexts[descend(h, x)[0]][0]

\* The highest level the unlink loop rewrites a predecessor link at, for
\* level, level+1, .. lv-1 (level - 1 when it rewrites none).
RECURSIVE topUnlinked(_, _, _, _, _)
topUnlinked(nx, trace, curr, level, lv) ==
    IF level >= lv \/ nx[trace[level]][level] # curr THEN level - 1
    ELSE topUnlinked(nx, trace, curr, level + 1, lv)

\* The highest level a successful remove takes its victim out of: every
\* level for the head, the levels the unlink loop handles otherwise.
victimTop(h, x) ==
    IF head_cmp(h, x) = 0 THEN h.levels - 1
    ELSE topUnlinked(h.nexts, descend(h, x), victim(h, x), 0, h.levels)

\* NonEmptySkipList::remove.
remove(h, x) ==
    LET c == head_cmp(h, x)
    IN  IF c = 1 THEN RemovalNone(h)
        ELSE IF c = 0 THEN removeHead(h)
        ELSE removeInner(h, x)

\* ------------------------------------------- the calls statement by statement
\* One memory event of a call: k is "alloc" (Box::new of a node with value v),
\* "read" (nexts[l] of node n, v the link read), "readval" (val of node n),
\* "write" (nexts[l] of node n becomes v), "head" (self.head becomes n),
\* "levels" (self.levels becomes v), "draw" (self.rng.random() yields v) or
\* "free" (SkipNode::dealloc of node n; l counts the links of the other
\* allocated nodes that hold n at that moment and v is self.head at that
\* moment).  In the runs of insert and remove the reads of head_cmp and of
\* descend come before every event listed and are left out.
Event(k, n, l, v) == [k |-> k, n |-> n, l |-> l, v |-> v]

\* The number of links of allocated nodes other than ptr that hold ptr.
linksTo(h, ptr) ==
    Cardinality({c \in (h.live \ {ptr}) \X LevelIdx : h.nexts[c[1]][c[2]] = ptr})

\* What one event does to the heap.
effect(h, e) ==
    CASE e.k = "alloc" ->
            [h EXCEPT !.val[e.n] = e.v, !.live = h.live \cup {e.n}]
      [] e.k = "write" -> [h EXCEPT !.nexts[e.n][e.l] = e.v]
      [] e.k = "head" -> [h EXCEPT !.head = e.n]
      [] e.k = "levels" -> [h EXCEPT !.levels = e.v]
      [] e.k = "free" -> dealloc(h, e.n)
      [] OTHER -> h

\* A run is the heap reached and the events so far.
emit(s, e) == [h |-> effect(s.h, e), tr |-> Append(s.tr, e)]
read(s, ptr, level) == emit(s, Event("read", ptr, level, s.h.nexts[ptr][level]))
write(s, ptr, level, v) == emit(s, Event("write", ptr, level, v))
free(s, ptr) == emit(s, Event("free", ptr, linksTo(s.h, ptr), s.h.head))

\* NonEmptySkipList::new: the node is allocated, then the struct is built.
newRun(h, x) ==
    LET n == alloc(h.live)
        s1 == emit([h |-> h, tr |-> <<>>], Event("alloc", n, 0, x))
        s2 == emit(s1, Event("head", n, 0, 0))
    IN  emit(s2, Event("levels", Nil, 0, 1))

\* The for loop of the head path of insert, for level, level+1, .. levels-1:
\* take() reads and clears the old head's link, then the new head gets it.
RECURSIVE insertHeadLoop(_, _, _, _)
insertHeadLoop(s, n, old, level) ==
    IF level >= s.h.levels THEN s
    ELSE LET v == s.h.nexts[old][level]
             s1 == read(s, old, level)
             s2 == write(s1, old, level, Nil)
         IN  insertHeadLoop(write(s2, n, level, v), n, old, level + 1)

\* The head path of insert: the new head is filled in as a local value, then
\* allocated and stored in self.head.
insertHeadRun(s, x) ==
    LET n == alloc(s.h.live)
        old == s.h.head
        s1 == insertHeadLoop(write(s, n, 0, old), n, old, 1)
        s2 == emit(s1, Event("alloc", n, 0, x))
    IN  emit(s2, Event("head", n, 0, 0))

\* The level loop of insert, statement by statement.
RECURSIVE insertLevelsRun(_, _, _, _, _, _)
insertLevelsRun(s, trace, curr, random, level, limit) ==
    IF level >= limit \/ Bit(random, level) = 0 THEN s
    ELSE LET grow == level >= s.h.levels
             s1 == IF grow
                   THEN emit(s, Event("levels", Nil, 0, s.h.levels + 1))
                   ELSE s
             p == IF grow THEN s.h.head ELSE trace[level]
             s2 == read(s1, p, level)
             s3 == write(s2, curr, level, s.h.nexts[p][level])
         IN  insertLevelsRun(write(s3, p, level, curr),
                             trace, curr, random, level + 1, limit)

\* The splice path of insert, statement by statement.
insertSpliceRun(s, x, random) ==
    LET trace == descend(s.h, x)
        curr == alloc(s.h.live)
        p == trace[0]
        s1 == emit(s, Event("alloc", curr, 0, x))
        s2 == read(s1, p, 0)
        s3 == write(s2, curr, 0, s.h.nexts[p][0])
        s4 == emit(write(s3, p, 0, curr), Event("draw", Nil, 0, random))
    IN  insertLevelsRun(s4, trace, curr, random, 1, Min(s.h.levels + 1, N))

\* NonEmptySkipList::insert, statement by statement.
insertRun(h, x, random) ==
    LET s == [h |-> h, tr |-> <<>>]
    IN  IF head_cmp(h, x) >= 0 THEN insertHeadRun(s, x)
        ELSE insertSpliceRun(s, x, random)

\* The head inheritance loop of remove, statement by statement; the second
\* operand of || is read only when the first is false.
RECURSIVE inheritRun(_, _, _, _)
inheritRun(s, old, nh, level) ==
    IF level < 1 THEN s
    ELSE LET s1 == read(read(s, old, level), old, 0)
         IN  IF s.h.nexts[old][level] = s.h.nexts[old][0] THEN s1
             ELSE LET s2 == read(s1, nh, level)
                  IN  IF s.h.nexts[nh][level] # Nil THEN s2
                      ELSE inheritRun(write(read(s2, old, level), nh, level,
                                            s.h.nexts[old][level]),
                                      old, nh, level - 1)

\* The trailing while of remove, statement by statement.
RECURSIVE shrinkRun(_)
shrinkRun(s) ==
    IF s.h.levels <= 1 THEN s
    ELSE LET s1 == read(s, s.h.head, s.h.levels - 1)
         IN  IF s.h.nexts[s.h.head][s.h.levels - 1] # Nil THEN s1
             ELSE shrinkRun(emit(s1, Event("levels", Nil, 0, s.h.levels - 1)))

\* The Equal arm of remove, statement by statement: without a successor the
\* head is deallocated at once and the call returns; otherwise self.head is
\* replaced, the new head inherits, the old head is deallocated.
removeHeadRun(s) ==
    LET old == s.h.head
        nh == s.h.nexts[old][0]
        s1 == read(s, old, 0)
    IN  IF nh = Nil THEN free(s1, old)
        ELSE LET s2 == emit(s1, Event("head", nh, 0, 0))
                 s3 == inheritRun(s2, old, nh, s.h.levels - 1)
             IN  shrinkRun(free(s3, old))

\* The unlink loop of remove, statement by statement.
RECURSIVE unlinkRun(_, _, _, _)
unlinkRun(s, trace, curr, level) ==
    IF level >= s.h.levels THEN s
    ELSE LET p == trace[level]
             s1 == read(s, p, level)
         IN  IF s.h.nexts[p][level] # curr THEN s1
             ELSE unlinkRun(write(read(s1, curr, level), p, level,
                                  s1.h.nexts[curr][level]),
                            trace, curr, level + 1)

\* Mutant of removeInnerRun: the victim is deallocated before the unlink loop.
removeInnerRun_freefirst(s, x) ==
    LET trace == descend(s.h, x)
        p == trace[0]
        curr == s.h.nexts[p][0]
        s1 == read(s, p, 0)
    IN  IF curr = Nil THEN s1
        ELSE LET s2 == emit(s1, Event("readval", curr, 0, s.h.val[curr]))
             IN  IF s.h.val[curr] # x THEN s2
                 ELSE shrinkRun(unlinkRun(free(s2, curr), trace, curr, 0))

\* The Less arm of remove, statement by statement.
removeInnerRun(s, x) ==
    LET trace == descend(s.h, x)
        p == trace[0]
        curr == s.h.nexts[p][0]
        s1 == read(s, p, 0)
    IN  IF curr = Nil THEN s1
        ELSE LET s2 == emit(s1, Event("readval", curr, 0, s.h.val[curr]))
             IN  IF s.h.val[curr] # x THEN s2
                 ELSE shrinkRun(free(unlinkRun(s2, trace, curr, 0), curr))

\* NonEmptySkipList::remove, statement by statement.
removeRun(h, x) ==
    LET s == [h |-> h, tr |-> <<>>]
        c == head_cmp(h, x)
    IN  IF c = 1 THEN s
        ELSE IF c = 0 THEN removeHeadRun(s)
        ELSE removeInnerRun(s, x)

\* A read of a node's value.
readval(s, ptr) == emit(s, Event("readval", ptr, 0, s.h.val[ptr]))

\* The while-let of descend at one level, statement by statement: the link of
\* prev_node is read, then the value of the node it names.
RECURSIVE advanceRun(_, _, _, _)
advanceRun(s, x, level, p) ==
    LET c == s.h.nexts[p][level]
        s1 == read(s, p, level)
    IN  IF c = Nil THEN [s |-> s1, p |-> p]
        ELSE LET s2 == readval(s1, c)
             IN  IF s.h.val[c] < x THEN advanceRun(s2, x, level, c)
                 ELSE [s |-> s2, p |-> p]

\* descend with the visitor of contains, statement by statement: the visitor
\* keeps the last pointer it is given.
RECURSIVE descendRun(_, _, _, _)
descendRun(s, x, level, p) ==
    LET a == advanceRun(s, x, level, p)
    IN  IF level = 0 THEN a ELSE descendRun(a.s, x, level - 1, a.p)

\* Mutant of containsRun: a value found behind its predecessor is taken out of
\* the level-0 list by the lookup.
containsRun_unlinks(h, x) ==
    LET s0 == readval([h |-> h, tr |-> <<>>], h.head)
        c == head_cmp(h, x)
    IN  IF c = 1 THEN [s |-> s0, ans |-> FALSE]
        ELSE IF c = 0 THEN [s |-> s0, ans |-> TRUE]
        ELSE LET d == descendRun(s0, x, h.levels - 1, h.head)
                 curr == d.s.h.nexts[d.p][0]
                 s1 == read(d.s, d.p, 0)
             IN  IF curr = Nil THEN [s |-> s1, ans |-> FALSE]
                 ELSE IF s1.h.val[curr] # x
                 THEN [s |-> readval(s1, curr), ans |-> FALSE]
                 ELSE [s |-> write(readval(s1, curr), d.p, 0,
                                   s1.h.nexts[curr][0]),
                       ans |-> TRUE]

\* NonEmptySkipList::contains, statement by statement: head_cmp reads the
\* head's value, the Less arm descends and reads the level-0 successor.
containsRun(h, x) ==
    LET s0 == readval([h |-> h, tr |-> <<>>], h.head)
        c == head_cmp(h, x)
    IN  IF c = 1 THEN [s |-> s0, ans |-> FALSE]
        ELSE IF c = 0 THEN [s |-> s0, ans |-> TRUE]
        ELSE LET d == descendRun(s0, x, h.levels - 1, h.head)
                 curr == d.s.h.nexts[d.p][0]
                 s1 == read(d.s, d.p, 0)
             IN  IF curr = Nil THEN [s |-> s1, ans |-> FALSE]
                 ELSE [s |-> readval(s1, curr), ans |-> s1.h.val[curr] = x]

\* NonEmptyStorage::get, statement by statement (section 4.2.2): the same
\* three cases, the answer being the node found.
getRun(h, x) ==
    LET s0 == readval([h |-> h, tr |-> <<>>], h.head)
        c == head_cmp(h, x)
    IN  IF c = 1 THEN [s |-> s0, ans |-> Nil]
        ELSE IF c = 0 THEN [s |-> s0, ans |-> h.head]
        ELSE LET d == descendRun(s0, x, h.levels - 1, h.head)
                 curr == d.s.h.nexts[d.p][0]
                 s1 == read(d.s, d.p, 0)
             IN  IF curr = Nil THEN [s |-> s1, ans |-> Nil]
                 ELSE [s |-> readval(s1, curr),
                       ans |-> IF s1.h.val[curr] = x THEN curr ELSE Nil]

\* ------------------------------------------------------------ the facades
\* The state of a facade holding None: no storage, every slot free.
EmptyVal == [n \in Nodes |-> 0]
EmptyNexts == [n \in Nodes |-> NoLinks]

\* Node addresses are only ever compared for equality (lib.rs:249, 281), never
\* ordered or computed with, so the behaviour of the program does not depend
\* on which addresses Box::new hands out.  Every state is kept under the
\* naming of the addresses that numbers the nodes along the level-0 chain from
\* the head, the remaining slots following in ascending order.
RECURSIVE chain0(_, _, _)
chain0(h, n, acc) ==
    IF n = Nil \/ n \in {acc[i] : i \in 1..Len(acc)} THEN acc
    ELSE chain0(h, h.nexts[n][0], Append(acc, n))

RECURSIVE ascending(_)
ascending(S) ==
    IF S = {} THEN <<>>
    ELSE LET m == CHOOSE a \in S : \A b \in S : a <= b
         IN  <<m>> \o ascending(S \ {m})

canon(h) ==
    LET c == chain0(h, h.head, <<>>)
        order == c \o ascending(Nodes \ {c[i] : i \in 1..Len(c)})
        to(n) == IF n = Nil THEN Nil ELSE CHOOSE i \in Nodes : order[i] = n
    IN  [head |-> to(h.head),
         levels |-> h.levels,
         val |-> [i \in Nodes |-> h.val[order[i]]],
         ent |-> [i \in Nodes |-> h.ent[order[i]]],
         nexts |-> [i \in Nodes |-> [l \in LevelIdx |-> to(h.nexts[order[i]][l])]],
         live |-> {to(n) : n \in h.live},
         at |-> [n \in Nodes |-> to(n)]]

\* Writes a named heap record back to the variables of a facade holding Some.
Put(g) ==
    /\ some' = TRUE
    /\ head' = g.head
    /\ levels' = g.levels
    /\ val' = g.val
    /\ ent' = g.ent
    /\ nexts' = g.nexts
    /\ live' = g.live

\* Writes a heap record back to the variables of a facade holding Some.
Store(h) == \E g \in {canon(h)} : Put(g)

\* self.0 = None after Removal::Last: the storage struct is gone, the heap is
\* what the removal left.
StoreNone(h) ==
    \E g \in {canon([h EXCEPT !.head = Nil])} :
        /\ some' = FALSE
        /\ head' = Nil
        /\ levels' = 0
        /\ val' = g.val
        /\ ent' = g.ent
        /\ nexts' = g.nexts
        /\ live' = g.live

\* SkipList::contains (facade): false on None, else the storage's contains.
Contains(x) == some /\ contains(Heap, x)

\* The probes the facade's contains accepts in the current state.
ContainsSet == {x \in Values : Contains(x)}

\* The history of a call with argument x that follows the last operation.
NoPair == [op |-> "other", ret |-> 0, cs |-> {}]
Follows(x) ==
    IF last.arg = x /\ last.op \in {"insert", "remove"}
    THEN [op |-> last.op, ret |-> last.ret, cs |-> prev]
    ELSE NoPair

\* The branch insert takes in the current state.
InsertPath(x) ==
    IF ~some THEN "new"
    ELSE IF head_cmp(Heap, x) >= 0 THEN "head" ELSE "splice"

\* SkipList::insert (SET facade).  The random word is drawn on the splice path
\* only (lib.rs:202); the head path does not read the rng, and on the empty
\* facade NonEmptySkipList::new creates the rng (from_os_rng) without drawing.
SetInsert(x) ==
    /\ last.op # "drop"
    /\ Cardinality(live) < MaxNodes
    /\ count' = [count EXCEPT ![x] = @ + 1]
    /\ prev' = ContainsSet
    /\ UNCHANGED <<events, facade>>
    /\ pair' = Follows(x)
    /\ UNCHANGED shadow
    /\ \E path \in {InsertPath(x)} :
       \E random \in (IF path = "splice" THEN RandomWords ELSE {0}) :
       \E g \in {canon(IF path = "new" THEN new(Heap, x, 0)
                       ELSE insert(Heap, x, 0, random))} :
          /\ Put(g)
          /\ last' = [op |-> "insert", arg |-> x, pay |-> 0, was |-> count[x],
                      ret |-> 0, path |-> path, lv |-> levels,
                      draws |-> IF path = "new" THEN 0
                                ELSE insertDraws(Heap, x),
                      node |-> g.at[alloc(live)],
                      top |-> IF path = "new" THEN 0
                              ELSE IF path = "head" THEN levels - 1
                              ELSE topLinked(random, 1, Min(levels + 1, N))]

\* SkipList::remove (SET facade): None on an empty facade; otherwise the
\* storage's remove works in place, and Removal::Last sets self.0 = None.
SetRemove(x) ==
    /\ last.op # "drop"
    /\ prev' = ContainsSet
    /\ UNCHANGED <<events, facade>>
    /\ pair' = Follows(x)
    /\ UNCHANGED shadow
    /\ IF ~some
       THEN /\ UNCHANGED <<heapvars, count>>
            /\ last' = [op |-> "remove", arg |-> x, pay |-> 0,
                        was |-> count[x], ret |-> 0, path |-> "empty",
                        lv |-> levels, draws |-> 0, node |-> Nil, top |-> 0]
       ELSE \E r \in {remove(Heap, x)} :
                /\ IF r.kind = "Last" THEN StoreNone(r.heap) ELSE Store(r.heap)
                /\ count' = IF r.kind = "None" THEN count
                            ELSE [count EXCEPT ![r.val] = @ - 1]
                /\ last' = [op |-> "remove", arg |-> x, pay |-> 0,
                            was |-> count[x], ret |-> r.val, path |-> r.kind,
                            lv |-> levels, draws |-> 0,
                            node |-> IF r.kind = "None" THEN Nil
                                     ELSE victim(Heap, x),
                            top |-> IF r.kind = "None" THEN 0
                                    ELSE victimTop(Heap, x)]

\* SkipList::contains (SET facade), as an observable call.
SetContains(x) ==
    /\ last.op # "drop"
    /\ last' = [op |-> "contains", arg |-> x, pay |-> 0, was |-> count[x],
                ret |-> IF Contains(x) THEN 1 ELSE 0, path |-> "lookup",
                lv |-> levels, draws |-> 0, node |-> Nil, top |-> 0]
    /\ prev' = ContainsSet
    /\ UNCHANGED <<events, facade>>
    /\ pair' = Follows(x)
    /\ UNCHANGED <<heapvars, count, shadow>>

\* Mutant of dropWalk: nexts[0] is read after the node was deallocated.
RECURSIVE dropWalk_readafter(_, _, _, _)
dropWalk_readafter(h, ptr, fuel, acc) ==
    LET h1 == dealloc(h, ptr)
        next_ptr == h1.nexts[ptr][0]
        a == [n |-> acc.n + 1, ok |-> acc.ok /\ ptr \in h.live]
    IN  IF next_ptr = Nil THEN [heap |-> h1, n |-> a.n, ok |-> a.ok]
        ELSE IF fuel = 0 THEN [heap |-> h1, n |-> a.n, ok |-> FALSE]
        ELSE dropWalk_readafter(h1, next_ptr, fuel - 1, a)

\* The loop of Drop::drop from curr_ptr: read curr.nexts[0], deallocate curr,
\* go on with the node read; acc.n counts the dealloc calls, acc.ok tells that
\* each of them hit an allocated node.  A walk of more than `fuel` further
\* nodes is cut and reported as not ok.
RECURSIVE dropWalk(_, _, _, _)
dropWalk(h, ptr, fuel, acc) ==
    LET next_ptr == h.nexts[ptr][0]
        h1 == dealloc(h, ptr)
        a == [n |-> acc.n + 1, ok |-> acc.ok /\ ptr \in h.live]
    IN  IF next_ptr = Nil THEN [heap |-> h1, n |-> a.n, ok |-> a.ok]
        ELSE IF fuel = 0 THEN [heap |-> h1, n |-> a.n, ok |-> FALSE]
        ELSE dropWalk(h1, next_ptr, fuel - 1, a)

\* Drop for SkipList: nothing to do on None; otherwise take the storage and
\* walk the level-0 list from its head.  No call follows a drop.
SetDrop ==
    /\ last.op # "drop"
    /\ prev' = ContainsSet
    /\ UNCHANGED <<events, facade>>
    /\ pair' = NoPair
    /\ count' = [v \in Values |-> 0]
    /\ UNCHANGED shadow
    /\ IF ~some
       THEN /\ UNCHANGED heapvars
            /\ last' = [op |-> "drop", arg |-> 0, pay |-> 0, was |-> 0,
                        ret |-> 0, path |-> "ok", lv |-> levels,
                        draws |-> 0, node |-> Nil, top |-> 0]
       ELSE \E w \in {dropWalk(Heap, head, MaxNodes, [n |-> 0, ok |-> TRUE])} :
                /\ StoreNone(w.heap)
                /\ last' = [op |-> "drop", arg |-> 0, pay |-> 0,
                            was |-> Cardinality(live), ret |-> w.n,
                            path |-> IF w.ok THEN "ok" ELSE "bad",
                            lv |-> levels, draws |-> 0, node |-> Nil,
                            top |-> 0]

\* SkipList::new: the facade holds None.
Init ==
    /\ some = FALSE
    /\ head = Nil
    /\ levels = 0
    /\ val = EmptyVal
    /\ ent = EmptyVal
    /\ nexts = EmptyNexts
    /\ live = {}
    /\ count = [v \in Values |-> 0]
    /\ shadow = [v \in Values |-> 0]
    /\ last = [op |-> "new", arg |-> 0, pay |-> 0, was |-> 0, ret |-> 0,
               path |-> "new", lv |-> 0, draws |-> 0, node |-> Nil, top |-> 0]
    /\ prev = {}
    /\ pair = NoPair
    /\ events = <<>>
    /\ facade = "SkipList"

Next ==
    \/ \E x \in Values : SetInsert(x)
    \/ \E x \in Values : SetRemove(x)
    \/ \E x \in Values : SetContains(x)
    \/ SetDrop

Spec == Init /\ [][Next]_vars

\* ------------------------------------------------------ NonEmptyStorage
\* The storage engine the SkipMap facade calls (crate::NonEmptyStorage) is
\* described in sections 4.2.2, 4.2.4 and 4.2.5 of the specification; its
\* insert and remove paths are those of NonEmptySkipList above.

\* NonEmptyStorage::get: the node whose entry matches the probe, or Nil.
get(h, x) ==
    LET c == head_cmp(h, x)
    IN  IF c = 1 THEN Nil
        ELSE IF c = 0 THEN h.head
        ELSE LET n == h.nexts[descend(h, x)[0]][0]
             IN  IF n # Nil /\ h.val[n] = x THEN n ELSE Nil

\* Mutant of upsert: an equal key is inserted as a new node ahead of the
\* existing one (the raw insert), nothing is displaced.
upsert_raw(h, x, e, random) == [heap |-> insert(h, x, e, random), old |-> 0]

\* NonEmptyStorage::upsert: replaces the entry of an equal key in place and
\* returns the displaced payload; otherwise inserts and returns none (0).
upsert(h, x, e, random) ==
    LET c == head_cmp(h, x)
    IN  IF c = 1 THEN [heap |-> insertHead(h, x, e), old |-> 0]
        ELSE IF c = 0
        THEN [heap |-> [h EXCEPT !.val[h.head] = x, !.ent[h.head] = e],
              old |-> h.ent[h.head]]
        ELSE LET n == h.nexts[descend(h, x)[0]][0]
             IN  IF n # Nil /\ h.val[n] = x
                 THEN [heap |-> [h EXCEPT !.val[n] = x, !.ent[n] = e],
                       old |-> h.ent[n]]
                 ELSE [heap |-> insertSplice(h, x, e, random), old |-> 0]

\* NonEmptyStorage::remove: the residual storage (none after the last
\* element) and the removed entry; the algorithm of section 4.2.5.
storageRemove(h, x) == remove(h, x)

\* ------------------------------------------------------------- SkipMap
\* SkipMap::get: the payload stored under the key, 0 for None.
MapGet(k) ==
    IF ~some THEN 0
    ELSE LET n == get(Heap, k) IN IF n = Nil THEN 0 ELSE ent[n]

\* SkipMap::contains.
MapContains(k) == some /\ get(Heap, k) # Nil

\* The answer of SkipMap::get for every key in the current state.
MapAnswers == [k \in Values |-> MapGet(k)]

\* The branch SkipMap::insert takes in the current state.
UpsertPath(k) ==
    IF ~some THEN "new"
    ELSE IF get(Heap, k) # Nil THEN "replace"
    ELSE IF head_cmp(Heap, k) >= 0 THEN "head" ELSE "splice"

\* Mutant of MapInsert: the storage's raw insert is called instead of upsert.
MapInsert_raw(k, e) ==
    /\ Cardinality(live) < MaxNodes
    /\ shadow' = [shadow EXCEPT ![k] = e]
    /\ prev' = MapAnswers
    /\ UNCHANGED <<events, facade>>
    /\ UNCHANGED <<count, pair>>
    /\ \E path \in {UpsertPath(k)} :
       \E random \in (IF path = "splice" THEN RandomWords ELSE {0}) :
       \E r \in {IF path = "new" THEN [heap |-> new(Heap, k, e), old |-> 0]
                 ELSE upsert_raw(Heap, k, e, random)} :
       \E g \in {canon(r.heap)} :
          /\ Put(g)
          /\ last' = [op |-> "insert", arg |-> k, pay |-> e,
                      was |-> shadow[k], ret |-> r.old, path |-> path,
                      lv |-> levels,
                      draws |-> IF path = "splice" THEN 1 ELSE 0,
                      node |-> g.at[alloc(live)],
                      top |-> IF path = "splice"
                              THEN topLinked(random, 1, Min(levels + 1, N))
                              ELSE IF path = "head" THEN levels - 1 ELSE 0]

\* Mutant of MapInsert: the displaced payload is dropped, None is returned.
MapInsert_noold(k, e) ==
    /\ Cardinality(live) < MaxNodes \/ MapContains(k)
    /\ shadow' = [shadow EXCEPT ![k] = e]
    /\ prev' = MapAnswers
    /\ UNCHANGED <<events, facade>>
    /\ UNCHANGED <<count, pair>>
    /\ \E path \in {UpsertPath(k)} :
       \E random \in (IF path = "splice" THEN RandomWords ELSE {0}) :
       \E r \in {IF path = "new" THEN [heap |-> new(Heap, k, e), old |-> 0]
                 ELSE upsert(Heap, k, e, random)} :
       \E g \in {canon(r.heap)} :
          /\ Put(g)
          /\ last' = [op |-> "insert", arg |-> k, pay |-> e,
                      was |-> shadow[k], ret |-> 0, path |-> path,
                      lv |-> levels,
                      draws |-> IF path = "splice" THEN 1 ELSE 0,
                      node |-> g.at[IF path = "replace" THEN get(Heap, k)
                                    ELSE alloc(live)],
                      top |-> IF path = "splice"
                              THEN topLinked(random, 1, Min(levels + 1, N))
                              ELSE IF path = "head" THEN levels - 1 ELSE 0]

\* SkipMap::insert: a new storage on an empty map (returns None), otherwise
\* the storage's upsert, projected to the displaced payload.  The random word
\* matters on the splice path only.
MapInsert(k, e) ==
    /\ Cardinality(live) < MaxNodes \/ MapContains(k)
    /\ shadow' = [shadow EXCEPT ![k] = e]
    /\ prev' = MapAnswers
    /\ UNCHANGED <<events, facade>>
    /\ UNCHANGED <<count, pair>>
    /\ \E path \in {UpsertPath(k)} :
       \E random \in (IF path = "splice" THEN RandomWords ELSE {0}) :
       \E r \in {IF path = "new" THEN [heap |-> new(Heap, k, e), old |-> 0]
                 ELSE upsert(Heap, k, e, random)} :
       \E g \in {canon(r.heap)} :
          /\ Put(g)
          /\ last' = [op |-> "insert", arg |-> k, pay |-> e,
                      was |-> shadow[k], ret |-> r.old, path |-> path,
                      lv |-> levels,
                      draws |-> IF path = "splice" THEN 1 ELSE 0,
                      node |-> g.at[IF path = "replace" THEN get(Heap, k)
                                    ELSE alloc(live)],
                      top |-> IF path = "splice"
                              THEN topLinked(random, 1, Min(levels + 1, N))
                              ELSE IF path = "head" THEN levels - 1 ELSE 0]

\* Mutant of MapRemove: the residual storage is not put back after take().
MapRemove_notback(k) ==
    /\ prev' = MapAnswers
    /\ UNCHANGED <<events, facade>>
    /\ UNCHANGED <<count, pair>>
    /\ IF ~some
       THEN /\ UNCHANGED <<heapvars, shadow>>
            /\ last' = [op |-> "remove", arg |-> k, pay |-> 0,
                        was |-> shadow[k], ret |-> 0, path |-> "empty",
                        lv |-> levels, draws |-> 0, node |-> Nil, top |-> 0]
       ELSE \E r \in {storageRemove(Heap, k)} :
                /\ StoreNone(r.heap)
                /\ shadow' = IF r.kind = "None" THEN shadow
                             ELSE [shadow EXCEPT ![r.val] = 0]
                /\ last' = [op |-> "remove", arg |-> k, pay |-> 0,
                            was |-> shadow[k], ret |-> r.ent, path |-> r.kind,
                            lv |-> levels, draws |-> 0,
                            node |-> IF r.kind = "None" THEN Nil
                                     ELSE victim(Heap, k),
                            top |-> IF r.kind = "None" THEN 0
                                    ELSE victimTop(Heap, k)]

\* SkipMap::remove: None on an empty map; otherwise take the storage, remove,
\* put the residual back and project the removed entry to its payload.
MapRemove(k) ==
    /\ prev' = MapAnswers
    /\ UNCHANGED <<events, facade>>
    /\ UNCHANGED <<count, pair>>
    /\ IF ~some
       THEN /\ UNCHANGED <<heapvars, shadow>>
            /\ last' = [op |-> "remove", arg |-> k, pay |-> 0,
                        was |-> shadow[k], ret |-> 0, path |-> "empty",
                        lv |-> levels, draws |-> 0, node |-> Nil, top |-> 0]
       ELSE \E r \in {storageRemove(Heap, k)} :
                /\ IF r.kind = "Last" THEN StoreNone(r.heap) ELSE Store(r.heap)
                /\ shadow' = IF r.kind = "None" THEN shadow
                             ELSE [shadow EXCEPT ![r.val] = 0]
                /\ last' = [op |-> "remove", arg |-> k, pay |-> 0,
                            was |-> shadow[k], ret |-> r.ent, path |-> r.kind,
                            lv |-> levels, draws |-> 0,
                            node |-> IF r.kind = "None" THEN Nil
                                     ELSE victim(Heap, k),
                            top |-> IF r.kind = "None" THEN 0
                                    ELSE victimTop(Heap, k)]

\* SkipMap::get and SkipMap::contains, as observable calls.
MapLookup(k) ==
    /\ last' = [op |-> "get", arg |-> k, pay |-> 0, was |-> shadow[k],
                ret |-> MapGet(k),
                path |-> IF MapContains(k) THEN "found" ELSE "absent",
                lv |-> levels, draws |-> 0, node |-> Nil, top |-> 0]
    /\ prev' = MapAnswers
    /\ UNCHANGED <<events, facade>>
    /\ UNCHANGED <<heapvars, count, shadow, pair>>

MapNext ==
    \/ \E k \in Values, e \in Payloads : MapInsert(k, e)
    \/ \E k \in Values : MapRemove(k)
    \/ \E k \in Values : MapLookup(k)

\* SkipMap::new: the facade holds None.
MapInit ==
    /\ some = FALSE
    /\ head = Nil
    /\ levels = 0
    /\ val = EmptyVal
    /\ ent = EmptyVal
    /\ nexts = EmptyNexts
    /\ live = {}
    /\ count = [v \in Values |-> 0]
    /\ shadow = [v \in Values |-> 0]
    /\ last = [op |-> "new", arg |-> 0, pay |-> 0, was |-> 0, ret |-> 0,
               path |-> "new", lv |-> 0, draws |-> 0, node |-> Nil, top |-> 0]
    /\ prev = [k \in Values |-> 0]
    /\ pair = NoPair
    /\ events = <<>>
    /\ facade = "SkipMap"

MapSpec == MapInit /\ [][MapNext]_vars

\* ------------------------------------------- SkipList, statement by statement
\* SkipList::insert with the events of the call recorded; last.path tells
\* whether the events lead to the heap the call as a whole produces.
RunInsert(x) ==
    /\ Cardinality(live) < MaxNodes
    /\ UNCHANGED <<count, shadow, prev, pair, facade>>
    /\ \E path \in {InsertPath(x)} :
       \E random \in (IF path = "splice" THEN RandomWords ELSE {0}) :
       \E s \in {IF path = "new" THEN newRun(Heap, x)
                 ELSE insertRun(Heap, x, random)} :
       \E whole \in {IF path = "new" THEN new(Heap, x, 0)
                     ELSE insert(Heap, x, 0, random)} :
           /\ Store(s.h)
           /\ events' = s.tr
           /\ last' = [op |-> "insert", arg |-> x, pay |-> 0, was |-> 0,
                       ret |-> 0,
                       path |-> IF s.h = whole THEN path ELSE "diverged",
                       lv |-> levels, draws |-> 0, node |-> Nil, top |-> 0]

\* SkipList::remove with the events of the call recorded.
RunRemove(x) ==
    /\ UNCHANGED <<count, shadow, prev, pair, facade>>
    /\ IF ~some
       THEN /\ UNCHANGED heapvars
            /\ events' = <<>>
            /\ last' = [op |-> "remove", arg |-> x, pay |-> 0, was |-> 0,
                        ret |-> 0, path |-> "None", lv |-> levels,
                        draws |-> 0, node |-> Nil, top |-> 0]
       ELSE \E s \in {removeRun(Heap, x)} :
            \E r \in {remove(Heap, x)} :
                /\ IF r.kind = "Last" THEN StoreNone(s.h) ELSE Store(s.h)
                /\ events' = s.tr
                /\ last' = [op |-> "remove", arg |-> x, pay |-> 0, was |-> 0,
                            ret |-> r.val,
                            path |-> IF s.h = r.heap THEN r.kind
                                     ELSE "diverged",
                            lv |-> levels, draws |-> 0, node |-> Nil,
                            top |-> 0]

OrderNext ==
    \/ \E x \in Values : RunInsert(x)
    \/ \E x \in Values : RunRemove(x)

OrderSpec == Init /\ [][OrderNext]_vars

\* ------------------------------------------------ lookups, statement by statement
\* The record of a call of which only the kind, the argument, the payload,
\* the result and the branch are kept.
Call(op, arg, pay, ret, path) ==
    [op |-> op, arg |-> arg, pay |-> pay, was |-> 0, ret |-> ret,
     path |-> path, lv |-> levels, draws |-> 0, node |-> Nil, top |-> 0]

\* SkipList::contains with the events of the call recorded: false on None,
\* else the storage's contains; the container is left as the events leave it.
RunContains(x) ==
    /\ facade = "SkipList"
    /\ UNCHANGED <<count, shadow, prev, pair, facade>>
    /\ IF ~some
       THEN /\ UNCHANGED heapvars
            /\ events' = <<>>
            /\ last' = Call("contains", x, 0, 0, "none")
       ELSE \E r \in {containsRun(Heap, x)} :
                /\ Store(r.s.h)
                /\ events' = r.s.tr
                /\ last' = Call("contains", x, 0, IF r.ans THEN 1 ELSE 0,
                                IF r.ans = contains(Heap, x) THEN "lookup"
                                ELSE "diverged")

\* SkipMap::insert, without the histories MapSpec keeps: of the call only its
\* kind is recorded.
PlainMapInsert(k, e) ==
    /\ facade = "SkipMap"
    /\ Cardinality(live) < MaxNodes \/ MapContains(k)
    /\ UNCHANGED <<count, shadow, prev, pair, facade>>
    /\ events' = <<>>
    /\ \E path \in {UpsertPath(k)} :
       \E random \in (IF path = "splice" THEN RandomWords ELSE {0}) :
       \E r \in {IF path = "new" THEN [heap |-> new(Heap, k, e), old |-> 0]
                 ELSE upsert(Heap, k, e, random)} :
          /\ Store(r.heap)
          /\ last' = Call("insert", 0, 0, 0, "plain")

\* SkipMap::remove, without the histories MapSpec keeps: of the call only its
\* kind is recorded.
PlainMapRemove(k) ==
    /\ facade = "SkipMap"
    /\ UNCHANGED <<count, shadow, prev, pair, facade>>
    /\ events' = <<>>
    /\ IF ~some
       THEN /\ UNCHANGED heapvars
            /\ last' = Call("remove", 0, 0, 0, "plain")
       ELSE \E r \in {storageRemove(Heap, k)} :
                /\ IF r.kind = "Last" THEN StoreNone(r.heap) ELSE Store(r.heap)
                /\ last' = Call("remove", 0, 0, 0, "plain")

\* SkipMap::get with the events of the call recorded: None on None, else the
\* payload of the entry the storage's get finds (0 for None).  SkipMap::contains
\* is the same call of the storage's get, its answer being whether an entry
\* was found (ret # 0).
RunMapGet(k) ==
    /\ facade = "SkipMap"
    /\ UNCHANGED <<count, shadow, prev, pair, facade>>
    /\ IF ~some
       THEN /\ UNCHANGED heapvars
            /\ events' = <<>>
            /\ last' = Call("get", k, 0, 0, "none")
       ELSE \E r \in {getRun(Heap, k)} :
                /\ Store(r.s.h)
                /\ events' = r.s.tr
                /\ last' = Call("get", k, 0,
                                IF r.ans = Nil THEN 0 ELSE r.s.h.ent[r.ans],
                                IF r.ans = get(Heap, k) THEN "lookup"
                                ELSE "diverged")

\* Either container with its lookups run statement by statement.
LookupInit == Init \/ MapInit

LookupNext ==
    \/ \E x \in Values : facade = "SkipList" /\ RunInsert(x)
    \/ \E x \in Values : facade = "SkipList" /\ RunRemove(x)
    \/ \E x \in Values : RunContains(x)
    \/ \E k \in Values, e \in Payloads : PlainMapInsert(k, e)
    \/ \E k \in Values : PlainMapRemove(k)
    \/ \E k \in Values : RunMapGet(k)

LookupSpec == LookupInit /\ [][LookupNext]_vars

\* ------------------------------------------------------- the level lists
\* The nodes met from node n by following nexts[i], as a traversal of level i
\* meets them (descend's while-let, Drop's loop at level 0); a walk that does
\* not end is cut after `fuel` nodes.
RECURSIVE follow(_, _, _, _)
follow(i, n, fuel, acc) ==
    IF n = Nil \/ fuel = 0 THEN acc
    ELSE follow(i, nexts[n][i], fuel - 1, Append(acc, n))

\* The level-i list of the storage, from the head.
levelChain(i) == follow(i, head, MaxNodes + 1, <<>>)

\* s is a subsequence of t: the elements of s occur in t in the same order.
RECURSIVE IsSubseq(_, _)
IsSubseq(s, t) ==
    IF s = <<>> THEN TRUE
    ELSE IF t = <<>> THEN FALSE
    ELSE IF Head(s) = Head(t) THEN IsSubseq(Tail(s), Tail(t))
    ELSE IsSubseq(s, Tail(t))

\* ================================================================ claims
\* C1: after any sequence of insert and remove calls, contains(v) is true for
\* every value v inserted and not subsequently removed (so also right after
\* insert(v), on the empty, the new-head and the splice path).
C1_InsertedContained == \A v \in Values : count[v] > 0 => Contains(v)

\* A splice insert that grew the list to two levels, its value found.
C1_Witness ==
    /\ last.op = "insert" /\ last.path = "splice"
    /\ levels = 2 /\ Cardinality(live) = 3
    /\ count[last.arg] > 0 /\ Contains(last.arg)

\* C2: contains(v) is false for every value never inserted or inserted and
\* then fully removed; contains is false on an empty container.
C2_AbsentNotContained == \A v \in Values : count[v] = 0 => ~Contains(v)

\* A successful remove took the last copy of a value out of a container that
\* keeps other values; the value is no longer found.
C2_Witness ==
    /\ last.op = "remove" /\ last.ret = last.arg
    /\ some /\ count[last.arg] = 0 /\ ~Contains(last.arg)

\* C3: a remove(v) issued while the inserts of v outnumber the successful
\* removes of v returns Some(v); hence values inserted into an empty container
\* can be removed one call per insert, in any order.
C3_RemoveReturnsProbe ==
    (last.op = "remove" /\ last.was > 0) => last.ret = last.arg

\* A remove returned one of two copies of its probe: another copy remains.
C3_Witness ==
    /\ last.op = "remove" /\ last.ret = last.arg
    /\ count[last.arg] = 1 /\ Cardinality(live) = 2

\* C4: the facade holds a storage iff at least one element is stored: the
\* first insert creates it, removing the sole element leaves None.
C4_SomeIffStored ==
    /\ some <=> (\E v \in Values : count[v] > 0)
    /\ some <=> live # {}
    /\ some => head \in live
    /\ last.path = "new" /\ last.op = "insert" => some /\ Cardinality(live) = 1
    /\ last.path = "Last" => ~some

\* The sole remaining element was removed: the facade holds None again.
C4_Witness ==
    /\ last.op = "remove" /\ last.path = "Last" /\ last.ret = last.arg
    /\ ~some /\ live = {}

\* C5: MAP insert(k, v2) returns the payload currently stored under k (absent
\* when k is not present, also on an empty map) and afterwards get(k) yields
\* v2; at every point get(k) yields the payload last inserted under k.
C5_MapInsertReplaces ==
    /\ last.op = "insert"
          => (last.ret = last.was /\ MapGet(last.arg) = last.pay)
    /\ \A k \in Values : MapGet(k) = shadow[k]

\* An insert under a key that is stored away from the head displaced another
\* payload.
C5_Witness ==
    /\ last.op = "insert" /\ last.path = "replace"
    /\ last.ret # 0 /\ last.ret # last.pay
    /\ MapGet(last.arg) = last.pay
    /\ val[head] < last.arg

\* C6: MAP remove(k) on a map holding k returns the payload most recently
\* inserted under k; afterwards get(k) is absent, contains(k) is false and
\* every other key keeps its payload.
C6_MapRemove ==
    (last.op = "remove" /\ last.was # 0)
        => /\ last.ret = last.was
           /\ MapGet(last.arg) = 0
           /\ ~MapContains(last.arg)
           /\ \A j \in Values \ {last.arg} : MapGet(j) = prev[j]

\* A key between two others was removed; both neighbours are still stored.
C6_Witness ==
    /\ last.op = "remove" /\ last.ret # 0 /\ last.path = "Some"
    /\ ~MapContains(last.arg)
    /\ \E a, b \in Values : a < last.arg /\ last.arg < b
                              /\ MapGet(a) # 0 /\ MapGet(b) # 0

\* C7 as stated: insert(v) directly followed by remove(v) returns v and leaves
\* contains(v) false, in any container state.
C7_AsStated ==
    (last.op = "remove" /\ pair.op = "insert")
        => (last.ret = last.arg /\ ~Contains(last.arg))

\* C7 amended: insert(v) directly followed by remove(v) returns v; contains(v)
\* is false afterwards iff the container did not hold v before the insert (the
\* SET admits duplicates: an earlier copy of v stays).
C7_InsertRemove ==
    (last.op = "remove" /\ pair.op = "insert")
        => /\ last.ret = last.arg
           /\ Contains(last.arg) <=> (last.arg \in pair.cs)

\* insert(v) into a container holding other values but not v, then remove(v):
\* v was returned and is gone.
C7_Witness ==
    /\ last.op = "remove" /\ pair.op = "insert"
    /\ last.arg \notin pair.cs /\ pair.cs # {}
    /\ last.ret = last.arg /\ ~Contains(last.arg)

\* C8: in a container that does not contain v, insert(v) then remove(v)
\* leaves contains(p) as it was for every probe p.
C8_InsertRemoveNeutral ==
    (last.op = "remove" /\ pair.op = "insert" /\ last.arg \notin pair.cs)
        => ContainsSet = pair.cs

\* v was inserted ahead of the head of a two-level list and removed again: the
\* probes found are those found before.
C8_Witness ==
    /\ last.op = "remove" /\ pair.op = "insert" /\ last.arg \notin pair.cs
    /\ some /\ levels = 2 /\ Cardinality(live) = 2
    /\ last.arg < val[head]
    /\ ContainsSet = pair.cs

\* C9 as stated: of two consecutive removes of a stored value the first
\* returns the value and the second returns absent.
C9_AsStated ==
    (last.op = "remove" /\ pair.op = "remove" /\ last.arg \in pair.cs)
        => (pair.ret = last.arg /\ last.ret = 0)

\* C9 amended: of two consecutive removes of a stored value the first returns
\* the value; the second returns absent when the first took the only copy,
\* and returns the value again when another copy was stored.
C9_RemoveTwice ==
    (last.op = "remove" /\ pair.op = "remove" /\ last.arg \in pair.cs)
        => /\ pair.ret = last.arg
           /\ last.ret = IF last.was = 0 THEN 0 ELSE last.arg

\* The second of two removes of a value stored once, between two other
\* values: absent.
C9_Witness ==
    /\ last.op = "remove" /\ pair.op = "remove" /\ last.arg \in pair.cs
    /\ pair.ret = last.arg /\ last.ret = 0 /\ last.was = 0
    /\ some /\ val[head] < last.arg /\ \E n \in live : val[n] > last.arg

\* C10: a remove that matches no stored value returns absent and leaves the
\* head, the levels, every node's value and links and the facade's state
\* unchanged.
C10_NotFoundChangesNothing ==
    [][(last'.op = "remove" /\ (last'.was = 0 \/ last'.ret = 0))
          => (last'.ret = 0 /\ UNCHANGED heapvars)]_vars

\* A not-found remove whose probe falls between two stored values.
C10_Witness ==
    /\ last.op = "remove" /\ last.ret = 0 /\ some
    /\ val[head] < last.arg
    /\ \E n \in live : val[n] > last.arg
    /\ levels = 2

\* The calls that are lookups: SkipList::contains, and SkipMap::get with
\* SkipMap::contains.
Lookups == {"contains", "get"}

\* C11: a lookup, the descent it performs included, only reads: its events
\* are reads of links and values, none allocates, deallocates, writes a link,
\* the head or the levels, or draws from the random source; the container it
\* leaves (head, levels, every node's value, payload and links, the live
\* allocations, the facade's Option) is the one it found; and a lookup
\* repeated directly gives the same answer.
C11_LookupPure ==
    [][(last'.op \in Lookups)
          => /\ \A j \in 1..Len(events') : events'[j].k \in {"read", "readval"}
             /\ heapvars' = heapvars
             /\ last'.path # "diverged"
             /\ (last.op = last'.op /\ last.arg = last'.arg)
                    => last'.ret = last.ret]_vars

\* A successful contains that descended through two levels of a three-node
\* list and read links and values on its way.
C11_Witness ==
    /\ facade = "SkipList"
    /\ last.op = "contains" /\ last.ret = 1
    /\ some /\ levels = 2 /\ Cardinality(live) = 3
    /\ val[head] < last.arg
    /\ Len(events) >= 4
    /\ \E j \in 1..Len(events) : events[j].k = "read" /\ events[j].l = 1

\* C12: the level counter of a storage stays within 1..N after any sequence
\* of inserts and removes, and an insert links its node at no level index
\* >= N (nor at an index >= levels).
C12_LevelsBounded ==
    /\ some => (1 <= levels /\ levels <= N)
    /\ \A n \in Nodes : DOMAIN nexts[n] = LevelIdx
    /\ last.op = "insert" => (last.top < N /\ last.top < levels)

\* More than N values are stored; the last insert drew a word whose bits sent
\* it to the top of a list that already had N levels.
C12_Witness ==
    /\ last.op = "insert" /\ last.path = "splice"
    /\ Cardinality(live) > N
    /\ last.lv = N /\ levels = N /\ last.top = N - 1

\* C13: the head of a non-empty storage carries the minimum of the stored
\* values.
C13_HeadIsMinimum ==
    some => (head \in live /\ \A n \in live : val[head] <= val[n])

\* A value smaller than every stored one was inserted (head path) and then
\* removed (head removal): the head is the next larger value.
C13_Witness ==
    /\ last.op = "remove" /\ last.path = "Some" /\ last.ret = last.arg
    /\ pair.op = "insert" /\ last.arg \notin pair.cs
    /\ some /\ last.arg < val[head] /\ Cardinality(live) >= 2

\* C14 as stated: at every level i < levels the values along nexts[i] from the
\* head are strictly increasing.
C14_AsStated ==
    some => \A i \in 0..(levels - 1) :
                LET c == levelChain(i)
                IN  \A k \in 1..(Len(c) - 1) : val[c[k]] < val[c[k + 1]]

\* C14 amended: at every level i < levels the values along nexts[i] from the
\* head never decrease, and two neighbours carry equal values only when that
\* value is stored more than once (the SET admits duplicate inserts).
C14_LevelsSorted ==
    some => \A i \in 0..(levels - 1) :
                LET c == levelChain(i)
                IN  \A k \in 1..(Len(c) - 1) :
                        /\ val[c[k]] <= val[c[k + 1]]
                        /\ val[c[k]] = val[c[k + 1]] => count[val[c[k]]] >= 2

\* A splice insert into a list of two levels whose level-1 list has three
\* nodes, all of different values.
C14_Witness ==
    /\ last.op = "insert" /\ last.path = "splice"
    /\ some /\ levels = 2 /\ Len(levelChain(1)) = 3
    /\ \A v \in Values : count[v] <= 1

\* C15: at every level i < levels the list along nexts[i] from the head is a
\* subsequence of the level-0 list.
C15_LevelsSubsequence ==
    some => \A i \in 0..(levels - 1) : IsSubseq(levelChain(i), levelChain(0))

\* A head removal after which the new head leads a level-1 list of two nodes
\* that skips a node of the level-0 list.
C15_Witness ==
    /\ last.op = "remove" /\ last.path = "Some" /\ last.arg < val[head]
    /\ some /\ levels = 2 /\ Cardinality(live) = 3
    /\ Len(levelChain(1)) = 2 /\ nexts[head][1] # nexts[head][0]

\* C16 as stated: in every observable state of a non-empty storage
\* head.nexts[i] is Some for every level i < levels.
C16_AsStated ==
    some => \A i \in 0..(levels - 1) : nexts[head][i] # Nil

\* C16 amended: head.nexts[i] is Some for every level i with 1 <= i < levels;
\* head.nexts[0] is Some exactly when the storage holds more than one node (a
\* storage of one node has levels = 1 and no link at all).
C16_HeadLinked ==
    some => /\ \A i \in 1..(levels - 1) : nexts[head][i] # Nil
            /\ nexts[head][0] # Nil <=> Cardinality(live) > 1

\* The head of a three-level list was removed; its successor leads all three
\* levels.
C16_Witness ==
    /\ last.op = "remove" /\ last.path = "Some" /\ last.arg < val[head]
    /\ some /\ last.lv = 3 /\ levels = 3
    /\ \A i \in 0..2 : nexts[head][i] # Nil

\* The highest level + 1 at which some live node has a link, 1 if none has.
LinkedLevels ==
    LET S == {i \in LevelIdx : \E n \in live : nexts[n][i] # Nil}
    IN  IF S = {} THEN 1 ELSE 1 + CHOOSE i \in S : \A j \in S : j <= i

\* C17: levels is exact: it equals the largest i+1 such that some live node
\* has a link at level i, and 1 when no node has a link; no node has a link at
\* a level >= levels; the first insert into an empty container gives 1.
C17_LevelsExact ==
    /\ some => levels = LinkedLevels
    /\ \A n \in Nodes : \A i \in LevelIdx : i >= levels => nexts[n][i] = Nil
    /\ (last.op = "insert" /\ last.path = "new") => levels = 1

\* A removal took out the only node linked at the levels 1 and 2: levels
\* went from 3 to 1 while other nodes remain.
C17_Witness ==
    /\ last.op = "remove" /\ last.path = "Some"
    /\ last.lv = 3 /\ levels = 1 /\ Cardinality(live) >= 2

\* C18: the level-0 list from the head is acyclic and visits every live node
\* exactly once; an empty container has no live node.
C18_Level0ExactlyOnce ==
    /\ ~some => live = {}
    /\ some => LET c == levelChain(0)
               IN  /\ Len(c) = Cardinality(live)
                   /\ {c[k] : k \in 1..Len(c)} = live

\* An inner node was removed from a four-node list of two levels: the three
\* remaining nodes are the level-0 list.
C18_Witness ==
    /\ last.op = "remove" /\ last.path = "Some" /\ val[head] < last.arg
    /\ some /\ last.lv = 2 /\ Cardinality(live) = 3
    /\ Len(levelChain(0)) = 3

\* C19: an insert into a non-empty storage raises levels by at most one,
\* whatever word is drawn, and never lowers it; the head path leaves levels
\* unchanged; when levels grew, the new top level holds exactly the head
\* followed by the new node.
C19_CapByOne ==
    (last.op = "insert" /\ last.path \in {"head", "splice"})
        => /\ last.lv <= levels /\ levels <= last.lv + 1
           /\ last.path = "head" => levels = last.lv
           /\ levels = last.lv + 1
                 => levelChain(levels - 1) = <<head, last.node>>

\* A splice insert into a one-level list drew a word with bit 1 set (the
\* all-ones word is one of them): the node was linked up to level 1 only and
\* levels went from 1 to 2.
C19_Witness ==
    /\ last.op = "insert" /\ last.path = "splice"
    /\ last.lv = 1 /\ last.top = 1 /\ levels = 2
    /\ Cardinality(live) = 3
    /\ levelChain(1) = <<head, last.node>>

\* The name a node has after a head insert: the states name the nodes along
\* the level-0 list from the head (canon), and the new head comes first.
behindNewHead(n) == IF n = Nil THEN Nil ELSE n + 1

\* C20: when head.val >= x, insert(x) installs a new node carrying x as head;
\* its level-0 link is the old head, its link at every level 1..levels-1 is
\* the link the old head had there, the old head keeps only its level-0 link,
\* levels and all other nodes are unchanged.
C20_HeadInsert ==
    [][(last'.op = "insert" /\ some /\ val[head] >= last'.arg)
          => /\ last'.path = "head"
             /\ head' = last'.node
             /\ val'[head'] = last'.arg
             /\ levels' = levels
             /\ nexts'[head'] =
                    [i \in LevelIdx |->
                        IF i = 0 THEN behindNewHead(head)
                        ELSE IF i < levels THEN behindNewHead(nexts[head][i])
                        ELSE Nil]
             /\ nexts'[behindNewHead(head)] =
                    [i \in LevelIdx |->
                        IF i = 0 THEN behindNewHead(nexts[head][0]) ELSE Nil]
             /\ \A n \in live :
                    /\ val'[behindNewHead(n)] = val[n]
                    /\ n # head =>
                          nexts'[behindNewHead(n)] =
                             [i \in LevelIdx |-> behindNewHead(nexts[n][i])]
             /\ live' = {head'} \cup {behindNewHead(n) : n \in live}]_vars

\* A value equal to the head's was inserted ahead of the head of a three-level
\* list: the new head leads all three levels.
C20_Witness ==
    /\ last.op = "insert" /\ last.path = "head"
    /\ some /\ levels = 3 /\ head = last.node
    /\ val[nexts[head][0]] = last.arg
    /\ nexts[head][2] # Nil /\ nexts[head][1] # nexts[head][2]
    /\ nexts[nexts[head][0]][1] = Nil

\* The name a node has after the head was removed: the states name the nodes
\* along the level-0 list from the head (canon), and the first one is gone.
afterHeadGone(n) == IF n = Nil THEN Nil ELSE n - 1

\* C21: removing the head's value when the head has a level-0 successor makes
\* that successor the head; at every level below the old levels the list from
\* the new head is the old list without the old head, the new head in front
\* (once); no link the new head had is overwritten and no other node changes.
C21_HeadRemoval ==
    [][(last'.op = "remove" /\ some /\ val[head] = last'.arg
            /\ nexts[head][0] # Nil)
          => LET nh == nexts[head][0]
                 Rest(n) == n # head /\ n # nh
             IN  /\ last'.path = "Some" /\ last'.ret = last'.arg
                 /\ last'.node = head
                 /\ some' /\ head' = afterHeadGone(nh)
                 /\ \A i \in 0..(levels - 1) :
                        LET c == SelectSeq(levelChain(i), Rest)
                        IN  levelChain(i)' =
                               <<head'>> \o [k \in 1..Len(c) |->
                                                afterHeadGone(c[k])]
                 /\ \A i \in LevelIdx :
                        nexts[nh][i] # Nil
                           => nexts'[head'][i] = afterHeadGone(nexts[nh][i])
                 /\ \A n \in live \ {head} :
                        /\ val'[afterHeadGone(n)] = val[n]
                        /\ n # nh =>
                              nexts'[afterHeadGone(n)] =
                                 [i \in LevelIdx |-> afterHeadGone(nexts[n][i])]
                 /\ live' = {afterHeadGone(n) : n \in live \ {head}}]_vars

\* The head of a three-level list was removed; its successor, which was on
\* level 1 already, inherited the level-2 link and leads a level-1 list of
\* three nodes.
C21_Witness ==
    /\ last.op = "remove" /\ last.path = "Some" /\ last.node = 1
    /\ some /\ last.lv = 3 /\ levels = 3 /\ Cardinality(live) = 3
    /\ Len(levelChain(1)) = 3 /\ Len(levelChain(2)) = 2

\* C22: after every operation the head and every link of every live node
\* refer to a live node; no link refers to the node a remove deallocated,
\* also when the unlink loop stopped below the top level.
C22_NoDangling ==
    /\ some => head \in live
    /\ \A n \in live : \A i \in LevelIdx :
           nexts[n][i] # Nil => nexts[n][i] \in live

\* An inner node that was on level 0 only was removed from a list of three
\* levels: the unlink loop stopped at level 1, and every link is live.
C22_Witness ==
    /\ last.op = "remove" /\ last.path = "Some" /\ last.node # 1
    /\ last.top = 0 /\ last.lv = 3 /\ levels = 3
    /\ \A n \in live : \A i \in LevelIdx :
           nexts[n][i] # Nil => nexts[n][i] \in live

\* The number of values stored according to the history: inserts minus
\* successful removes, over all values of S.
RECURSIVE Stored(_)
Stored(S) ==
    IF S = {} THEN 0
    ELSE LET v == CHOOSE u \in S : TRUE IN count[v] + Stored(S \ {v})

\* C23: the live nodes are exactly those inserted and not yet removed (a
\* successful remove deallocates one node, nothing else does); dropping the
\* container ends, deallocates every node that was live exactly once, each
\* dealloc hitting an allocated node, and leaves none; dropping an empty
\* container deallocates nothing.
C23_NoLeakNoDoubleFree ==
    /\ last.op # "drop" => Cardinality(live) = Stored(Values)
    /\ last.op = "drop"
          => /\ ~some /\ live = {}
             /\ last.path = "ok"
             /\ last.ret = last.was

\* A container of four nodes on three levels was dropped: four deallocs,
\* nothing left.
C23_Witness ==
    /\ last.op = "drop" /\ last.was = 4 /\ last.ret = 4 /\ last.lv = 3
    /\ live = {} /\ ~some

\* C24 as stated: every insert draws exactly one word from the random source,
\* whichever path it takes; lookup and remove draw none.
C24_AsStated ==
    /\ last.op = "insert" => last.draws = 1
    /\ last.op \in {"remove", "contains"} => last.draws = 0

\* C24 amended: an insert draws exactly one word when it splices its node in
\* behind the head (head.val < value) and none when the node becomes the head
\* or the first node of an empty container; lookup, remove and drop draw
\* none.
C24_DrawsOncePerSplice ==
    /\ last.op = "insert"
          => last.draws = (IF last.path = "splice" THEN 1 ELSE 0)
    /\ (last.op = "insert" /\ last.path = "splice")
          <=> (last.op = "insert" /\ val[head] < last.arg)
    /\ last.op \in {"remove", "contains", "drop"} => last.draws = 0

\* An insert ahead of the head of a two-level list: no word was drawn.
C24_Witness ==
    /\ last.op = "insert" /\ last.path = "head" /\ last.draws = 0
    /\ some /\ levels = 2 /\ last.arg < val[nexts[head][0]]

\* The tower of node n in a storage with head hd, lv levels and links nx: the
\* levels below lv at which n is linked, as the head or as the successor of a
\* live node.
towerIn(hd, lv, lvs, nx, n) ==
    {i \in 0..(lv - 1) : n = hd \/ \E m \in lvs : nx[m][i] = n}

\* The name after a call of the node named n before it: the states name the
\* nodes along the level-0 list (canon), so the nodes behind an inserted node
\* move one place down and the nodes behind a removed node one place up.
movedBy(call, n) ==
    IF call.op = "insert" /\ n >= call.node THEN n + 1
    ELSE IF call.op = "remove" /\ call.node # Nil /\ n > call.node THEN n - 1
    ELSE n

\* The nodes stored before and after a call.
keptBy(call, lvs) ==
    IF call.op = "drop" THEN {}
    ELSE IF call.op = "remove" THEN lvs \ {call.node}
    ELSE lvs

\* C25 as stated: the tower of a node does not change for as long as the node
\* is stored.
C25_AsStated ==
    [][\A n \in keptBy(last', live) :
          towerIn(head', levels', live', nexts', movedBy(last', n))
             = towerIn(head, levels, live, nexts, n)]_vars

\* C25 amended: the tower of a node does not change for as long as the node
\* is stored and is not the head.  The head is linked at every level below
\* levels: a node that becomes the head takes over all levels, and a head
\* displaced by a head insert keeps level 0 only.
C25_TowerFixedBehindHead ==
    [][\A n \in keptBy(last', live) :
          LET m == movedBy(last', n)
              before == towerIn(head, levels, live, nexts, n)
              after == towerIn(head', levels', live', nexts', m)
          IN  /\ m \in live' /\ val'[m] = val[n]
              /\ (n # head /\ m # head') => after = before
              /\ m = head' => after = 0..(levels' - 1)
              /\ (n = head /\ m # head') => after = {0}]_vars

\* After a head insert into a two-level list the displaced head is on level
\* 0 only and the third node is still on both levels.
C25_Witness ==
    /\ last.op = "insert" /\ last.path = "head" /\ last.node = 1
    /\ some /\ levels = 2 /\ Cardinality(live) = 3
    /\ towerIn(head, levels, live, nexts, 2) = {0}
    /\ towerIn(head, levels, live, nexts, 3) = {0, 1}

\* C26: MAP insert(k, v) on a map that holds k creates no node and changes
\* nothing but the payload of k's entry (same head, levels, keys, links and
\* live nodes), at the head or elsewhere; no two entries ever have equal keys.
C26_ReplaceInPlace ==
    [][/\ \A n, m \in live' : n # m => val'[n] # val'[m]
       /\ (last'.op = "insert" /\ MapContains(last'.arg))
             => /\ last'.path = "replace"
                /\ UNCHANGED <<some, head, levels, val, nexts, live>>
                /\ last'.node \in live /\ val[last'.node] = last'.arg
                /\ ent' = [ent EXCEPT ![last'.node] = last'.pay]]_vars

\* The payload of a key stored behind the head of a two-level map of three
\* keys was replaced by another one.
C26_Witness ==
    /\ last.op = "insert" /\ last.path = "replace"
    /\ last.node # head /\ ent[last.node] = last.pay /\ last.ret # last.pay
    /\ levels = 2 /\ Cardinality(live) = 3
    /\ \A n, m \in live : n # m => val[n] # val[m]

\* The positions of the dealloc calls among the events of the last call.
Frees == {j \in 1..Len(events) : events[j].k = "free"}

\* In the events of an insert every write that makes another node point to
\* the new node comes after a write of the new node's link at that level.
LinkedBeforePublished ==
    \A j \in 1..Len(events) :
        (/\ events[j].k = "write"
         /\ \E a \in 1..Len(events) :
                events[a].k = "alloc" /\ events[a].n = events[j].v
         /\ events[j].n # events[j].v)
        => \E i \in 1..(j - 1) :
               /\ events[i].k = "write"
               /\ events[i].n = events[j].v
               /\ events[i].l = events[j].l

\* No node holds the victim when it is deallocated, and no event after the
\* dealloc reads or writes the victim.
UnlinkedBeforeFreed ==
    \A j \in Frees :
        /\ events[j].l = 0
        /\ \A i \in (j + 1)..Len(events) : events[i].n # events[j].n

\* The statement-wise runs produce the heaps the calls as a whole produce.
RunsAgree == last.path # "diverged"

\* C27 as stated: in remove every predecessor link that pointed to the victim,
\* and the head pointer for head removal, is rewritten before the victim is
\* deallocated, and the victim is never read after its deallocation; in insert
\* the new node's forward link at a level is set before the predecessor's
\* link at that level is made to point to the new node.
C27_AsStated ==
    /\ last.op = "remove" =>
           /\ UnlinkedBeforeFreed
           /\ \A j \in Frees : events[j].v # events[j].n
    /\ last.op = "insert" => LinkedBeforePublished

\* C27 (amended): as stated, except that the head pointer is rewritten before
\* the deallocation only when the head has a successor; when the head is the
\* only node it is deallocated with self.head still holding it, the
\* deallocation is the last event of the call and the facade drops the
\* storage.
C27_OrderedWrites ==
    /\ last.op = "remove" =>
           /\ UnlinkedBeforeFreed
           /\ \A j \in Frees :
                  \/ events[j].v # events[j].n
                  \/ /\ last.path = "Last"
                     /\ j = Len(events)
                     /\ ~some
    /\ last.op = "insert" => LinkedBeforePublished

\* A remove that rewrote a predecessor link at two levels before it
\* deallocated its victim.
C27_Witness ==
    /\ last.op = "remove" /\ last.path = "Some"
    /\ \E j \in Frees :
           Cardinality({i \in 1..(j - 1) : events[i].k = "write"}) >= 2

====
